---- MODULE Spec2Model ----
(***************************************************************************)
(* Model of SinkHoleIdentification.py: the iterative sinkhole              *)
(* identification procedure (fill sinks, sink depth map, zonal maximum,    *)
(* hole indicator, polygon extraction, inverted depth raster DEM2).        *)
(*                                                                         *)
(* Rasters are functions from the cells of a Rows x Cols grid to integer   *)
(* values or NoData.  Elevations and the threshold d are integers; the     *)
(* arithmetic of the script (a difference, comparisons) is exact on them.  *)
(* The geoprocessing operations the script calls are modelled by what      *)
(* they compute on such a grid:                                            *)
(*   Fill               every cell raised to the lowest level at which it  *)
(*                      drains (8-connected) to a cell on the edge of the  *)
(*                      data (grid edge or next to NoData);                *)
(*   Con(c, t)          t where c is true, NoData where c is false or      *)
(*                      NoData (no false raster is ever given);            *)
(*   RasterToPolygon    one feature per edge-connected (4-connected) group *)
(*                      of equal-valued cells, fields Id and GRIDCODE;     *)
(*   ZonalStatistics    per-zone MAXIMUM written to every cell of the zone;*)
(*   Append NO_TEST     only fields present in the target are carried.     *)
(***************************************************************************)
EXTENDS Integers, Sequences, FiniteSets

\* ---- bounds of the model ------------------------------------------------
Rows == 5
Cols == 6
MaxElev == 3
MaxD == 2

\* ---- grid and raster helpers ---------------------------------------------
NoData == -1

Cells == (1..Rows) \X (1..Cols)

Interior == {c \in Cells : c[1] > 1 /\ c[1] < Rows /\ c[2] > 1 /\ c[2] < Cols}

Abs(x) == IF x < 0 THEN -x ELSE x

Adj4(a, b) == Abs(a[1] - b[1]) + Abs(a[2] - b[2]) = 1

Nbrs8(c) == {<<c[1] + dr, c[2] + dc>> : dr \in {-1, 0, 1}, dc \in {-1, 0, 1}} \ {c}

EmptyRaster == [c \in Cells |-> NoData]

DataCells(g) == {c \in Cells : g[c] # NoData}

\* Saving a raster evaluates it; the saved raster is the raster itself.
Save(r) == IF r = EmptyRaster THEN EmptyRaster ELSE r

SetMax(S) == CHOOSE x \in S : \A y \in S : y <= x

SetMin(S) == CHOOSE x \in S : \A y \in S : x <= y

Max2(a, b) == IF a >= b THEN a ELSE b

\* ---- Fill (step 1) ---------------------------------------------------------
\* A data cell on the edge of the data: on the grid edge or next to NoData.
EdgeCell(g, c) == \E n \in Nbrs8(c) : n \notin Cells \/ g[n] = NoData

\* One relaxation of the levels F: a cell already at its own elevation
\* stays there, any other cell goes to the lowest level among itself and
\* its neighbours with data, never below its own elevation.
RECURSIVE FillIter(_, _)
FillIter(g, F) ==
  LET N == [c \in Cells |->
              IF g[c] = NoData THEN NoData
              ELSE IF F[c] = g[c] THEN F[c]
              ELSE LET low == SetMin({F[c]} \cup
                                     {F[n] : n \in {x \in Nbrs8(c) : x \in Cells /\ g[x] # NoData}})
                   IN  Max2(g[c], low)]
  IN IF N = F THEN F ELSE FillIter(g, N)

Fill(g) ==
  LET D == DataCells(g)
  IN IF D = {} THEN g
     ELSE LET top == SetMax({g[c] : c \in D})
              F0 == [c \in Cells |->
                       IF g[c] = NoData THEN NoData
                       ELSE IF EdgeCell(g, c) THEN g[c] ELSE top]
          IN FillIter(g, Save(F0))

\* ---- Raster Calculator expressions (steps 2, 3, 6, 10) -------------------
Minus(a, b) == [c \in Cells |-> IF a[c] = NoData \/ b[c] = NoData THEN NoData ELSE a[c] - b[c]]

SinkDepth(s) == [c \in Cells |-> IF s[c] # NoData /\ s[c] > 0 THEN s[c] ELSE NoData]

MaskOfOnes(s) == [c \in Cells |-> IF s[c] # NoData /\ s[c] > 0 THEN 1 ELSE NoData]

\* Variants of the hole indicator: depth equal to d instead of at least d,
\* the depth itself as the cell value, no threshold test.
HoleIndicatorExactDepth(s, m, dd) ==
  [c \in Cells |->
     IF s[c] # NoData /\ s[c] = dd /\ m[c] # NoData /\ s[c] = m[c] THEN 1 ELSE NoData]

HoleIndicatorDepthValued(s, m, dd) ==
  [c \in Cells |->
     IF s[c] # NoData /\ s[c] >= dd /\ m[c] # NoData /\ s[c] = m[c] THEN s[c] ELSE NoData]

HoleIndicatorNoThreshold(s, m, dd) ==
  [c \in Cells |->
     IF s[c] # NoData /\ m[c] # NoData /\ s[c] = m[c] THEN 1 ELSE NoData]

HoleIndicator(s, m, dd) ==
  [c \in Cells |->
     IF s[c] # NoData /\ s[c] >= dd /\ m[c] # NoData /\ s[c] = m[c] THEN 1 ELSE NoData]

\* Variants of the inverted depth raster: holes not removed, depth not
\* inverted.
InvertedDepthKeepHoles(s, m, dd) ==
  [c \in Cells |->
     IF m[c] # NoData /\ m[c] >= dd /\ s[c] # NoData
     THEN m[c] - s[c] ELSE NoData]

InvertedDepthNotInverted(s, m, dd) ==
  [c \in Cells |->
     IF m[c] # NoData /\ m[c] >= dd /\ s[c] # NoData /\ s[c] # m[c]
     THEN s[c] ELSE NoData]

InvertedDepth(s, m, dd) ==
  [c \in Cells |->
     IF m[c] # NoData /\ m[c] >= dd /\ s[c] # NoData /\ s[c] # m[c]
     THEN m[c] - s[c] ELSE NoData]

\* Variant of the emptiness test: some cell without data instead of all.
AnyNoData(g) == \E c \in Cells : g[c] = NoData

AllNoData(g) == \A c \in Cells : g[c] = NoData

\* ---- Raster to Polygon (steps 4, 7) ---------------------------------------
\* The cells of S reached from the cells of seen, front being the cells
\* reached last, through edge-adjacent cells of equal value.
RECURSIVE Grow(_, _, _, _)
Grow(front, seen, S, g) ==
  LET new == {c \in S : c \notin seen /\ \E t \in front : Adj4(c, t) /\ g[c] = g[t]}
  IN IF new = {} THEN seen ELSE Grow(new, seen \cup new, S, g)

CellIndex(c) == (c[1] - 1) * Cols + c[2]

FirstCell(S) == CHOOSE c \in S : \A e \in S : CellIndex(c) <= CellIndex(e)

RECURSIVE PartsOf(_, _)
PartsOf(S, g) ==
  IF S = {} THEN {}
  ELSE LET p == Grow({FirstCell(S)}, {FirstCell(S)}, S, g)
       IN {p} \cup PartsOf({c \in S : c \notin p}, g)

Parts(g) == PartsOf(DataCells(g), g)

RasterToPolygon(g) ==
  LET P == Parts(g)
  IN {[Id |-> Cardinality({q \in P : CellIndex(FirstCell(q)) <= CellIndex(FirstCell(p))}),
       GRIDCODE |-> g[FirstCell(p)],
       cells |-> p] : p \in P}

\* ---- Zonal Statistics (step 5) -------------------------------------------
\* Variant of the zonal maximum: one maximum over all zones together.
ZonalMaxGlobal(zones, v) ==
  LET vals == {v[e] : e \in UNION {z.cells : z \in zones}} \ {NoData}
  IN [c \in Cells |->
        IF (\E z \in zones : c \in z.cells) /\ vals # {} THEN SetMax(vals) ELSE NoData]

\* The zone field is Id: features with the same Id form one zone.  Cells of
\* the value raster without data are ignored.
ZonalMax(zones, v) ==
  LET table == {<<i, {v[e] : e \in UNION {z.cells : z \in {y \in zones : y.Id = i}}} \ {NoData}>> :
                  i \in {z.Id : z \in zones}}
  IN [c \in Cells |->
        LET hit == {t \in table : \E z \in zones : z.Id = t[1] /\ c \in z.cells}
        IN IF hit = {} THEN NoData
           ELSE LET vals == (CHOOSE t \in hit : TRUE)[2]
                IN IF vals = {} THEN NoData ELSE SetMax(vals)]

\* ---- Append (step 9) -------------------------------------------------------
RECURSIVE InIdOrder(_)
InIdOrder(F) ==
  IF F = {} THEN << >>
  ELSE LET f == CHOOSE x \in F : \A y \in F : x.Id <= y.Id
       IN <<f>> \o InIdOrder(F \ {f})

DropFields(f) == [Id |-> f.Id, cells |-> f.cells]

AppendFeatures(target, F) ==
  LET s == InIdOrder(F) IN target \o [i \in 1..Len(s) |-> DropFields(s[i])]

\* ---- state -----------------------------------------------------------------
VARIABLES pc, d, inputDEM, DEM, layerCreated, HOLV, loop_num,
          filled_dem, sink, snk, msk, mskv, MAX, HOL, HOLV1, DEM2

vars == <<pc, d, inputDEM, DEM, layerCreated, HOLV, loop_num,
          filled_dem, sink, snk, msk, mskv, MAX, HOL, HOLV1, DEM2>>

\* The raster the name DEM currently refers to.
CurrentDEM == IF DEM = "input" THEN inputDEM ELSE DEM2

\* Input surfaces: a rim at MaxElev, a flat interior at level b, a pit cell
\* in the interior at level v and one further cell q, in the row, the column
\* or the diagonal of the pit cell (rim included), set to w (an elevation
\* below MaxElev or NoData).
PitCell == <<3, 3>>

FreeCells == {c \in Cells : c[1] = PitCell[1] \/ c[2] = PitCell[2] \/ c[1] - c[2] = PitCell[1] - PitCell[2]}

Surface(b, v, q, w) ==
  [c \in Cells |->
     IF c = q THEN w
     ELSE IF c = PitCell THEN v
     ELSE IF c \in Interior THEN b
     ELSE MaxElev]

Surfaces ==
  {Surface(b, v, q, w) : b \in {MaxElev - 1, MaxElev}, v \in 0..MaxElev,
                         q \in FreeCells, w \in (0..(MaxElev - 1)) \cup {NoData}}

Thresholds == 0..MaxD

Init ==
  /\ pc = "create"
  /\ d \in Thresholds
  /\ inputDEM \in Surfaces
  /\ DEM = "input"
  /\ layerCreated = FALSE
  /\ HOLV = << >>
  /\ loop_num = 1
  /\ filled_dem = EmptyRaster
  /\ sink = EmptyRaster
  /\ snk = EmptyRaster
  /\ msk = EmptyRaster
  /\ mskv = {}
  /\ MAX = EmptyRaster
  /\ HOL = EmptyRaster
  /\ HOLV1 = {}
  /\ DEM2 = EmptyRaster

\* ---- the script, step by step ----------------------------------------------
CreateFeatureclass ==
  /\ pc = "create"
  /\ layerCreated' = TRUE
  /\ HOLV' = << >>
  /\ loop_num' = 1
  /\ pc' = "step1"
  /\ UNCHANGED <<d, inputDEM, DEM, filled_dem, sink, snk, msk, mskv, MAX, HOL, HOLV1, DEM2>>

Step1 ==
  /\ pc = "step1"
  /\ filled_dem' = Save(Fill(CurrentDEM))
  /\ pc' = "step2"
  /\ UNCHANGED <<d, inputDEM, DEM, layerCreated, HOLV, loop_num, sink, snk, msk, mskv, MAX, HOL, HOLV1, DEM2>>

Step2 ==
  /\ pc = "step2"
  /\ sink' = Save(Minus(filled_dem, CurrentDEM))
  /\ snk' = Save(SinkDepth(sink'))
  /\ pc' = "step3"
  /\ UNCHANGED <<d, inputDEM, DEM, layerCreated, HOLV, loop_num, filled_dem, msk, mskv, MAX, HOL, HOLV1, DEM2>>

Step3 ==
  /\ pc = "step3"
  /\ msk' = Save(MaskOfOnes(snk))
  /\ pc' = "step4"
  /\ UNCHANGED <<d, inputDEM, DEM, layerCreated, HOLV, loop_num, filled_dem, sink, snk, mskv, MAX, HOL, HOLV1, DEM2>>

Step4 ==
  /\ pc = "step4"
  /\ mskv' = RasterToPolygon(msk)
  /\ pc' = "step5"
  /\ UNCHANGED <<d, inputDEM, DEM, layerCreated, HOLV, loop_num, filled_dem, sink, snk, msk, MAX, HOL, HOLV1, DEM2>>

Step5 ==
  /\ pc = "step5"
  /\ MAX' = Save(ZonalMax(mskv, snk))
  /\ pc' = "step6"
  /\ UNCHANGED <<d, inputDEM, DEM, layerCreated, HOLV, loop_num, filled_dem, sink, snk, msk, mskv, HOL, HOLV1, DEM2>>

Step6 ==
  /\ pc = "step6"
  /\ HOL' = Save(HoleIndicator(snk, MAX, d))
  /\ pc' = "check"
  /\ UNCHANGED <<d, inputDEM, DEM, layerCreated, HOLV, loop_num, filled_dem, sink, snk, msk, mskv, MAX, HOLV1, DEM2>>

CheckEmpty ==
  /\ pc = "check"
  /\ AllNoData(HOL)
  /\ pc' = "done"
  /\ UNCHANGED <<d, inputDEM, DEM, layerCreated, HOLV, loop_num, filled_dem, sink, snk, msk, mskv, MAX, HOL, HOLV1, DEM2>>

Step7 ==
  /\ pc = "check"
  /\ ~AllNoData(HOL)
  /\ HOLV1' = RasterToPolygon(HOL)
  /\ pc' = "step9"
  /\ UNCHANGED <<d, inputDEM, DEM, layerCreated, HOLV, loop_num, filled_dem, sink, snk, msk, mskv, MAX, HOL, DEM2>>

Step9 ==
  /\ pc = "step9"
  /\ HOLV' = AppendFeatures(HOLV, HOLV1)
  /\ pc' = "step10"
  /\ UNCHANGED <<d, inputDEM, DEM, layerCreated, loop_num, filled_dem, sink, snk, msk, mskv, MAX, HOL, HOLV1, DEM2>>

Step10 ==
  /\ pc = "step10"
  /\ DEM2' = Save(InvertedDepth(snk, MAX, d))
  /\ pc' = "step11"
  /\ UNCHANGED <<d, inputDEM, DEM, layerCreated, HOLV, loop_num, filled_dem, sink, snk, msk, mskv, MAX, HOL, HOLV1>>

\* Variant of step 11: the name DEM is not rebound to DEM2.
Step11KeepDEM ==
  /\ pc = "step11"
  /\ loop_num' = loop_num + 1
  /\ pc' = "step1"
  /\ UNCHANGED <<d, inputDEM, DEM, layerCreated, HOLV, filled_dem, sink, snk, msk, mskv, MAX, HOL, HOLV1, DEM2>>

Step11 ==
  /\ pc = "step11"
  /\ DEM' = "DEM2"
  /\ loop_num' = loop_num + 1
  /\ pc' = "step1"
  /\ UNCHANGED <<d, inputDEM, layerCreated, HOLV, filled_dem, sink, snk, msk, mskv, MAX, HOL, HOLV1, DEM2>>

Next ==
  \/ CreateFeatureclass
  \/ Step1
  \/ Step2
  \/ Step3
  \/ Step4
  \/ Step5
  \/ Step6
  \/ CheckEmpty
  \/ Step7
  \/ Step9
  \/ Step10
  \/ Step11

Spec == Init /\ [][Next]_vars

\* The script runs its statements one after the other without blocking:
\* while the run has not ended, the position in the script advances.  Every
\* step of Next changes pc and one is enabled at every pc but "done", so
\* this is weak fairness of Next, stated on pc alone.
PcValues ==
  {"create", "step1", "step2", "step3", "step4", "step5", "step6", "check",
   "step9", "step10", "step11", "done"}

Advance == pc # "done" /\ pc' \in PcValues /\ pc' # pc

FairSpec == Spec /\ WF_pc(Advance)

\* ---- the whole run as a function of the surface and the threshold ------------
\* The cells covered by the polygons the loop extracts from surface g with
\* threshold dd (steps 1-7 and 10 of every iteration, until HOL is empty).
RECURSIVE RunCover(_, _)
RunCover(g, dd) ==
  LET f == Save(Fill(g))
      s == Save(SinkDepth(Save(Minus(f, g))))
      m == Save(ZonalMax(RasterToPolygon(Save(MaskOfOnes(s))), s))
      h == Save(HoleIndicator(s, m, dd))
  IN IF AllNoData(h) THEN {}
     ELSE UNION {p.cells : p \in RasterToPolygon(h)} \cup
          RunCover(Save(InvertedDepth(s, m, dd)), dd)

\* ---- quantities the properties are stated in ---------------------------------
HoleCells == DataCells(HOL)

Cover == UNION {HOLV[i].cells : i \in 1..Len(HOLV)}

\* Depth of a cell of the current iteration: filled minus surface.
DepthAt(c) ==
  IF filled_dem[c] = NoData \/ CurrentDEM[c] = NoData THEN 0
  ELSE filled_dem[c] - CurrentDEM[c]

Depressed == {c \in Cells : DepthAt(c) > 0}

\* The cells of S reached from the cells of seen through edge-adjacent
\* cells of S, front being the cells reached last.
RECURSIVE Reach4(_, _, _)
Reach4(front, seen, S) ==
  LET new == {c \in S : c \notin seen /\ \E t \in front : Adj4(c, t)}
  IN IF new = {} THEN seen ELSE Reach4(new, seen \cup new, S)

RegionOf(c) == Reach4({c}, {c}, Depressed)

RegionMaxAt(c) == SetMax({DepthAt(e) : e \in RegionOf(c)})

RECURSIVE SumOver(_, _)
SumOver(S, g) ==
  IF S = {} THEN 0
  ELSE LET c == CHOOSE x \in S : TRUE IN g[c] + SumOver(S \ {c}, g)

\* Depression volume of a sink raster: the sum of its positive values.
Volume(g) == SumOver({c \in Cells : g[c] # NoData /\ g[c] > 0}, g)

\* pc values at which HOL has just been written from the filled_dem, snk
\* and MAX of the iteration whose surface is CurrentDEM.
Detected == {"check"}

\* ---- C1 ------------------------------------------------------------------
\* C1: with a threshold d > 0 the loop eventually ends; the loop is left only
\* from the emptiness test of a detection phase whose hole raster HOL is
\* empty, so HOL is empty once the run has ended.
LoopTerminates ==
  /\ (d > 0) ~> (pc = "done")
  /\ [](pc = "done" => HoleCells = {})
  /\ [][pc' = "done" => (pc \in {"check", "done"} /\ HoleCells = {})]_vars

EndedAfterExtraction == pc = "done" /\ d > 0 /\ loop_num > 1 /\ HoleCells = {}

\* ---- C2 ------------------------------------------------------------------
\* C2: for thresholds 0 < d1 < d2 on the same input surface, the cells
\* covered by the polygons of the whole run with d2 are among the cells
\* covered by the polygons of the whole run with d1.
ThresholdMonotone ==
  pc = "done" =>
    \A e \in Thresholds : (0 < d /\ d < e) => RunCover(inputDEM, e) \subseteq Cover

StrictlyMoreWithLowerThreshold ==
  /\ pc = "done"
  /\ d = 1
  /\ RunCover(inputDEM, 2) # {}
  /\ RunCover(inputDEM, 2) # Cover

\* ---- C3 ------------------------------------------------------------------
\* C3 as claimed: every polygon appended to the output carries a GRIDCODE
\* equal to the zonal maximum depth of its region in its iteration.
GridcodeIsCrestDepth ==
  pc = "step10" =>
    /\ \A f \in HOLV1 : f.GRIDCODE = MAX[FirstCell(f.cells)]
    /\ \A i \in 1..Len(HOLV) :
         HOLV[i].cells \subseteq HoleCells =>
           /\ "GRIDCODE" \in DOMAIN HOLV[i]
           /\ HOLV[i].GRIDCODE = MAX[FirstCell(HOLV[i].cells)]

\* C3 amended: every polygon extracted in an iteration carries GRIDCODE 1,
\* the value of the hole indicator raster, whatever the depth of its crest,
\* and the features of the output layer carry no GRIDCODE at all.
GridcodeIsIndicator ==
  /\ \A f \in HOLV1 : f.GRIDCODE = 1
  /\ \A i \in 1..Len(HOLV) : DOMAIN HOLV[i] = {"Id", "cells"}

DeepCrestAppended ==
  /\ pc = "step10"
  /\ Len(HOLV) > 0
  /\ \E f \in HOLV1 : MAX[FirstCell(f.cells)] > 1

\* ---- C4 ------------------------------------------------------------------
\* C4: with a threshold d <= 0 the run stops before the first iteration, the
\* output layer is not created and no polygon is appended.
InvalidThresholdRejected ==
  d <= 0 => (pc = "create" /\ ~layerCreated /\ Len(HOLV) = 0)

\* ---- C5 ------------------------------------------------------------------
\* The depth map of the input surface: filled minus surface where positive.
InputDepth == Save(SinkDepth(Minus(Fill(inputDEM), inputDEM)))

\* Every depth of raster s is below dd (a raster without depression included).
AllBelow(s, dd) == \A c \in Cells : s[c] = NoData \/ s[c] < dd

\* C5: when every depression of the input is shallower than d, the run ends
\* in its first iteration: the HOL of the first detection phase is empty,
\* nothing was extracted and the output is empty.
NoSinksFound ==
  (pc = "done" /\ AllBelow(InputDepth, d)) =>
    (loop_num = 1 /\ Len(HOLV) = 0 /\ HoleCells = {})

ShallowDepressionIgnored ==
  /\ pc = "done"
  /\ DataCells(snk) # {}
  /\ AllBelow(InputDepth, d)

\* ---- C6 ------------------------------------------------------------------
Deepest(s) ==
  LET D == DataCells(s)
  IN IF D = {} THEN {} ELSE LET top == SetMax({s[c] : c \in D}) IN {c \in D : s[c] = top}

Shallowest(s) ==
  LET D == DataCells(s)
  IN IF D = {} THEN {} ELSE LET low == SetMin({s[c] : c \in D}) IN {c \in D : s[c] = low}

\* Depth map s is one depression of two depth levels, a connected inner pit
\* inside a shallower outer basin, and only the inner depth reaches dd.
Nested(s, dd) ==
  LET D == DataCells(s)
      inner == Deepest(s)
      outer == Shallowest(s)
  IN /\ D # {}
     /\ Reach4({FirstCell(D)}, {FirstCell(D)}, D) = D
     /\ D = inner \cup outer
     /\ inner \cap outer = {}
     /\ Reach4({FirstCell(inner)}, {FirstCell(inner)}, inner) = inner
     /\ s[FirstCell(outer)] < dd
     /\ dd <= s[FirstCell(inner)]

\* C6 as claimed: iteration 1 extracts only the inner pit; in iteration 2
\* the outer basin is a depression again, extracted iff its depth reaches
\* d; if it is not, the run ends with exactly the inner-pit polygon.
NestedOuterResurfaces ==
  LET s == InputDepth
  IN (pc \in {"check", "done"} /\ Nested(s, d)) =>
       /\ (loop_num = 1 => HoleCells = Deepest(s))
       /\ (loop_num = 2 => DataCells(snk) \cap Shallowest(s) # {})
       /\ (loop_num = 2 => (HoleCells # {} <=> \E c \in DataCells(snk) : snk[c] >= d))
       /\ (pc = "done" /\ loop_num = 2 => (Len(HOLV) = 1 /\ Cover = Deepest(s)))

\* C6 amended: iteration 1 extracts only the inner pit and replaces the
\* surface by NoData everywhere except the outer basin, which becomes flat
\* at inner depth minus outer depth; in iteration 2 no depression appears,
\* HOL is empty and the run ends with exactly the inner-pit polygon.
NestedEndsWithInnerOnly ==
  LET s == InputDepth
  IN (pc \in {"step11", "done"} /\ Nested(s, d)) =>
       /\ loop_num <= 2
       /\ (loop_num = 1 => (pc # "done" /\ HoleCells = Deepest(s)))
       /\ (pc = "step11" =>
             \A c \in Cells :
               DEM2[c] = IF c \in Shallowest(s)
                         THEN s[FirstCell(Deepest(s))] - s[c] ELSE NoData)
       /\ (loop_num = 2 => (DataCells(snk) = {} /\ HoleCells = {}))
       /\ (pc = "done" => (Len(HOLV) = 1 /\ Cover = Deepest(s)))

NestedRunEnded == pc = "done" /\ Nested(InputDepth, d)

\* ---- C7 ------------------------------------------------------------------
\* C7: in every iteration a cell is set in HOL iff it lies in a depression
\* region (depth > 0), its depth equals the maximum depth of its region and
\* its depth is at least d.
HoleMaskExact ==
  pc \in Detected =>
    \A c \in Cells :
      (HOL[c] # NoData) <=>
        (DepthAt(c) > 0 /\ DepthAt(c) = RegionMaxAt(c) /\ DepthAt(c) >= d)

OnlyDeepestOfQualifying ==
  /\ pc = "check"
  /\ HoleCells # {}
  /\ \E c \in Depressed : c \notin HoleCells /\ RegionMaxAt(c) >= d

\* ---- C8 ------------------------------------------------------------------
\* A cell touched by a qualifying region of the current iteration.
Touched(c) == DepthAt(c) > 0 /\ RegionMaxAt(c) >= d

\* C8 as claimed: the deflating step leaves every cell not touched by a
\* qualifying region at the value it had in the current surface.
UntouchedCellsRetained ==
  [][pc = "step10" => \A c \in Cells : ~Touched(c) => DEM2'[c] = CurrentDEM[c]]_vars

\* C8 amended: the deflating step sets every cell not touched by a
\* qualifying region, and every deepest cell of a qualifying region, to
\* NoData; only cells of qualifying regions whose depth differs from the
\* zonal maximum carry a value, zonal maximum minus depth.
UntouchedCellsBecomeNoData ==
  [][pc = "step10" =>
       \A c \in Cells :
         IF DepthAt(c) > 0
         THEN LET top == RegionMaxAt(c)
              IN DEM2'[c] = IF top >= d /\ DepthAt(c) # top THEN top - DepthAt(c) ELSE NoData
         ELSE DEM2'[c] = NoData]_vars

SurfaceCellDropped ==
  /\ pc = "step11"
  /\ loop_num = 1
  /\ \E c \in Cells : inputDEM[c] # NoData /\ MAX[c] = NoData /\ DEM2[c] = NoData
  /\ \E c \in Cells : DEM2[c] # NoData

\* ---- C9 ------------------------------------------------------------------
\* C9: from one iteration to the next the depression volume (the sum of the
\* positive values of filled minus surface) does not increase, and the
\* deflating step that separates them strictly reduces it.
VolumeDecreases ==
  [][(pc = "step2" /\ loop_num > 1) =>
       (Volume(sink') <= Volume(sink) /\ Volume(sink') < Volume(sink))]_vars

VolumeLeftInSecondIteration == pc = "step3" /\ loop_num > 1 /\ Volume(sink) > 0

\* ---- C10 -----------------------------------------------------------------
\* C10: no cell is extracted twice: the appended footprints are pairwise
\* disjoint, an extracted cell has no data in any later surface, and every
\* extracting iteration strictly shrinks the set of data cells.
NoCellExtractedTwice ==
  /\ [](\A i, j \in 1..Len(HOLV) : i # j => HOLV[i].cells \cap HOLV[j].cells = {})
  /\ [](\A c \in Cover : (pc = "step10" /\ c \in HoleCells) \/ DEM2[c] = NoData)
  /\ [][pc = "step10" =>
          (DataCells(DEM2') \subseteq DataCells(CurrentDEM) /\
           DataCells(DEM2') # DataCells(CurrentDEM))]_vars

TwoExtractingIterations == pc = "done" /\ loop_num = 3 /\ Len(HOLV) >= 2

====
